---- MODULE Spec2Model ----
(***************************************************************************)
(* Model of the apricity rendering toolkit: the SimpleImage pixel buffer   *)
(* (src/src/gui.rs), its polygon rasterizer and text compositor, and the   *)
(* equirectangular projection of src/src/lib.rs.                           *)
(*                                                                         *)
(* f64 values are modelled as exact rationals <<num, den>> (den > 0, in    *)
(* lowest terms); floating-point rounding error is outside the model.      *)
(* u32 / i32 values stay far below their width at the bounds used here.    *)
(***************************************************************************)
EXTENDS Integers, Sequences, FiniteSets

VARIABLES img, op, lastw, nops, draw, text, proj

vars == <<img, op, lastw, nops, draw, text, proj>>

(***************************************************************************)
(* Bounds                                                                  *)
(***************************************************************************)
MaxDim == 2        \* buffer dimensions and access coordinates in 0..MaxDim
MaxOps == 2        \* pixel accesses per behaviour of SpecBuf
RectSlack == 1     \* SpecRect buffers are 11..11+RectSlack pixels a side
ImgW == 2          \* SpecPoly buffer width
ImgH == 2          \* SpecPoly buffer height
MaxVerts == 3      \* vertices of a SpecPoly polygon
MaxGlyphs == 2     \* glyphs of a SpecText layout
MaxExt == 2        \* glyph boxes span rows -MaxExt..MaxExt
MaxSide == 3       \* SpecProj projections are at most MaxSide a side

(***************************************************************************)
(* f64 arithmetic, exact                                                   *)
(***************************************************************************)
Abs(n) == IF n < 0 THEN -n ELSE n

RECURSIVE GCD(_, _)
GCD(a, b) == IF b = 0 THEN a ELSE GCD(b, a % b)

Rat(n, d) ==
    LET g == GCD(Abs(n), d)
    IN  <<n \div g, d \div g>>

R(n) == <<n, 1>>

RAdd(a, b) == Rat(a[1]*b[2] + b[1]*a[2], a[2]*b[2])
RSub(a, b) == Rat(a[1]*b[2] - b[1]*a[2], a[2]*b[2])
RMul(a, b) == Rat(a[1]*b[1], a[2]*b[2])
RDiv(a, b) ==
    IF b[1] > 0 THEN Rat(a[1]*b[2], a[2]*b[1])
                ELSE Rat(-(a[1]*b[2]), -(a[2]*b[1]))
RLt(a, b) == a[1]*b[2] < b[1]*a[2]
RLe(a, b) == a[1]*b[2] <= b[1]*a[2]
RMin(a, b) == IF RLt(b, a) THEN b ELSE a
RMax(a, b) == IF RLt(a, b) THEN b ELSE a

\* `f as i32` / `f as u32`: truncation toward zero
AsInt(a) == IF a[1] >= 0 THEN a[1] \div a[2] ELSE -((-a[1]) \div a[2])

\* `i as u32` of an i32: reinterpretation (two's complement)
AsU32(i) == IF i >= 0 THEN i ELSE (i + 2147483647) + 2147483647 + 2

(***************************************************************************)
(* SimpleImage                                                             *)
(***************************************************************************)
Zero == <<0, 0, 0, 0>>
Black == <<0, 0, 0, 255>>

\* the length taken as the pixel count, not the byte count
New_PixelCount(width, height) ==
    LET len == width*height
    IN  [data |-> [i \in 1..len |-> 0], width |-> width, height |-> height]

New(width, height) ==
    LET len == 4*width*height
    IN  [data |-> [i \in 1..len |-> 0], width |-> width, height |-> height]

\* 4*y*self.width + 4*x
Offset(im, x, y) == 4*y*im.width + 4*x

\* data[idx..idx + 4]: the slice exists when it ends inside the vector
Fits(im, x, y) == Offset(im, x, y) + 4 <= Len(im.data)

\* index(): the byte offset, then the checked 4-byte slice
Index(im, x, y) ==
    IF Fits(im, x, y)
    THEN [ok |-> TRUE,
          val |-> [j \in 1..4 |-> im.data[Offset(im, x, y) + j]]]
    ELSE [ok |-> FALSE, val |-> Zero]

\* index_mut() followed by the assignment of c through the reference
IndexMut(im, x, y, c) ==
    IF Fits(im, x, y)
    THEN [ok |-> TRUE,
          img |-> [im EXCEPT !.data =
                      [i \in 1..Len(im.data) |->
                          IF i > Offset(im, x, y) /\ i <= Offset(im, x, y) + 4
                          THEN c[i - Offset(im, x, y)] ELSE im.data[i]]]]
    ELSE [ok |-> FALSE, img |-> im]

InBounds(im, x, y) == x < im.width /\ y < im.height

Pixel(im, x, y) == Index(im, x, y).val

(***************************************************************************)
(* Idle values of the parts of the state a specification does not use      *)
(***************************************************************************)
Dims == 0..MaxDim
Coords == Dims \X Dims
ColorA == <<10, 20, 30, 40>>
ColorB == <<255, 0, 0, 255>>
Colors == {ColorA, ColorB}

NoOp == [kind |-> "none", x |-> 0, y |-> 0, c |-> Zero, ok |-> TRUE,
         val |-> Zero, before |-> <<>>]
NoWrites == [p \in Coords |-> Zero]
NoDraw == [pc |-> "idle"]
NoText == [pc |-> "idle"]
NoProj == [pc |-> "idle"]

(***************************************************************************)
(* SpecBuf: a buffer made by new(), then pixel reads and writes.           *)
(* lastw records, per coordinate pair handed to a write that returned,     *)
(* the color of the latest such write (Zero when there was none).          *)
(***************************************************************************)
InitBuf ==
    /\ \E w \in Dims, h \in Dims :
          /\ img = New(w, h)
          /\ op = [NoOp EXCEPT !.kind = "new", !.x = w, !.y = h]
    /\ lastw = NoWrites
    /\ nops = 0
    /\ draw = NoDraw
    /\ text = NoText
    /\ proj = NoProj

Read(x, y) ==
    /\ nops < MaxOps
    /\ LET r == Index(img, x, y)
       IN  op' = [kind |-> "read", x |-> x, y |-> y, c |-> Zero,
                  ok |-> r.ok, val |-> r.val, before |-> img.data]
    /\ nops' = nops + 1
    /\ UNCHANGED <<img, lastw, draw, text, proj>>

Write(x, y, c) ==
    /\ nops < MaxOps
    /\ LET r == IndexMut(img, x, y, c)
       IN  /\ img' = r.img
           /\ op' = [kind |-> "write", x |-> x, y |-> y, c |-> c,
                     ok |-> r.ok, val |-> Zero, before |-> img.data]
           /\ lastw' = IF r.ok THEN [lastw EXCEPT ![<<x, y>>] = c] ELSE lastw
    /\ nops' = nops + 1
    /\ UNCHANGED <<draw, text, proj>>

NextBuf ==
    \/ \E p \in Coords : Read(p[1], p[2])
    \/ \E p \in Coords, c \in Colors : Write(p[1], p[2], c)

SpecBuf == InitBuf /\ [][NextBuf]_vars

\* C1: an access at (x, y) with x >= width or y >= height fails with an
\* out-of-bounds condition and leaves every byte of the buffer as it was.
C1_OutOfRangeFails ==
    (op.kind \in {"read", "write"} /\ ~InBounds(img, op.x, op.y))
        => (~op.ok /\ img.data = op.before)

\* C2: every in-bounds pixel reads as the color of the latest write to its
\* coordinates, or as [0,0,0,0] when its coordinates were never written.
C2_ReadsLastWrite ==
    \A p \in Coords :
        InBounds(img, p[1], p[2]) =>
            /\ Index(img, p[1], p[2]).ok
            /\ Pixel(img, p[1], p[2]) = lastw[p]

\* C6: new(w, h) reports width w and height h and holds 4*w*h zero bytes.
C6_NewZeroFilled ==
    op.kind = "new" =>
        /\ img.width = op.x
        /\ img.height = op.y
        /\ Len(img.data) = 4 * op.x * op.y
        /\ \A i \in 1..Len(img.data) : img.data[i] = 0

C6_Witness ==
    /\ op.kind = "new"
    /\ img.width = 0
    /\ img.height = 1
    /\ img.data = <<>>

(***************************************************************************)
(* draw_polygon                                                            *)
(***************************************************************************)
Pt(x, y) == [x |-> x, y |-> y]

\* the edge list without the wrap-around pair (last, first)
Lines_Open(polygon) ==
    [i \in 1..(Len(polygon) - 1) |-> <<polygon[i], polygon[i + 1]>>]

\* polygon.iter().zip(polygon.iter().cycle().skip(1))
Lines(polygon) ==
    [i \in 1..Len(polygon) |->
        <<polygon[i], polygon[(i % Len(polygon)) + 1]>>]

F64Max == R(1000000)

RECURSIVE TopOf(_, _, _)
TopOf(lines, i, acc) ==
    IF i > Len(lines) THEN acc
    ELSE TopOf(lines, i + 1, RMin(RMin(acc, lines[i][1].y), lines[i][2].y))

RECURSIVE BottomOf(_, _, _)
BottomOf(lines, i, acc) ==
    IF i > Len(lines) THEN acc
    ELSE BottomOf(lines, i + 1, RMax(RMax(acc, lines[i][1].y), lines[i][2].y))

\* the body of the loop over the edges at scan line y: the x pushed, if any
Intersection(p0, p1, y) ==
    IF p0.y = p1.y THEN <<>>
    ELSE LET a == IF RLt(p1.y, p0.y) THEN p1 ELSE p0
             b == IF RLt(p1.y, p0.y) THEN p0 ELSE p1
         IN  IF RLt(y, a.y) \/ RLt(b.y, y) THEN <<>>
             ELSE IF a.x = b.x THEN <<AsInt(a.x)>>
             ELSE LET k == RDiv(RSub(b.y, a.y), RSub(b.x, a.x))
                      m == RSub(a.y, RMul(k, a.x))
                      x == RDiv(RSub(y, m), k)
                  IN  <<AsInt(x)>>

RECURSIVE Intersections(_, _, _)
Intersections(lines, i, y) ==
    IF i > Len(lines) THEN <<>>
    ELSE Intersection(lines[i][1], lines[i][2], y)
            \o Intersections(lines, i + 1, y)

RECURSIVE Insert(_, _)
Insert(s, v) ==
    IF s = <<>> THEN <<v>>
    ELSE IF v < Head(s) THEN <<v>> \o s
    ELSE <<Head(s)>> \o Insert(Tail(s), v)

RECURSIVE Sort(_)
Sort(s) == IF s = <<>> THEN <<>> ELSE Insert(Sort(Tail(s)), Head(s))

\* one pixel past x1
Span_Wide(x0, x1) == [j \in 1..(x1 - x0 + 2) |-> x0 + (j - 1)]

\* x0..=x1
Span(x0, x1) == [j \in 1..(x1 - x0 + 1) |-> x0 + (j - 1)]

\* zip(xs, xs.skip(1)).enumerate() kept at even positions, then x0..=x1 each
RECURSIVE FillXs(_, _)
FillXs(xs, k) ==
    IF k + 1 > Len(xs) THEN <<>>
    ELSE Span(xs[k], xs[k + 1]) \o FillXs(xs, k + 2)

\* `y as u32` of an f64: truncating, saturating at 0
F64AsU32(y) == IF y[1] < 0 THEN 0 ELSE AsInt(y)

\* the number of leading pixels of pxs whose slice exists
Fitting(im, pxs) ==
    IF \A j \in 1..Len(pxs) : Fits(im, pxs[j][1], pxs[j][2]) THEN Len(pxs)
    ELSE (CHOOSE j \in 1..Len(pxs) :
             /\ ~Fits(im, pxs[j][1], pxs[j][2])
             /\ \A k \in 1..(j - 1) : Fits(im, pxs[k][1], pxs[k][2])) - 1

\* the 4 bytes at each offset of offs set to c
SetBytes(im, offs, c) ==
    [im EXCEPT !.data =
        [i \in 1..Len(im.data) |->
            IF \E o \in offs : i > o /\ i <= o + 4
            THEN c[((i - 1) % 4) + 1] ELSE im.data[i]]]

Painted(im, done, c, log, ok) ==
    [ok  |-> ok,
     img |-> SetBytes(im, {Offset(im, q[1], q[2]) : q \in done}, c),
     log |-> log \cup done]

\* self[(x, y)] = c for every pixel of pxs in order, stopping at the first
\* out-of-bounds slice; log collects the coordinates written
WriteAll(im, pxs, c, log) ==
    Painted(im, {pxs[j] : j \in 1..Fitting(im, pxs)}, c, log,
            Fitting(im, pxs) = Len(pxs))

\* (x as u32, y as u32) for every x of xs
RowPixels(xs, y) == [j \in 1..Len(xs) |-> <<AsU32(xs[j]), F64AsU32(y)>>]

ScanPixels(lines, y) ==
    RowPixels(FillXs(Sort(Intersections(lines, 1, y)), 1), y)

(***************************************************************************)
(* line_drawing::Bresenham::new(start, stop), the iterator the outline     *)
(* pass consumes: the line is walked in the first octant and each point    *)
(* mapped back; both end points are produced.                              *)
(***************************************************************************)
Octant(start, stop) ==
    LET dx0 == stop[1] - start[1]
        dy0 == stop[2] - start[2]
        v1  == IF dy0 < 0 THEN 4 ELSE 0
        dx1 == IF dy0 < 0 THEN -dx0 ELSE dx0
        dy1 == IF dy0 < 0 THEN -dy0 ELSE dy0
        v2  == IF dx1 < 0 THEN v1 + 2 ELSE v1
        dx2 == IF dx1 < 0 THEN dy1 ELSE dx1
        dy2 == IF dx1 < 0 THEN -dx1 ELSE dy1
    IN  IF dx2 < dy2 THEN v2 + 1 ELSE v2

OctantTo(o, p) ==
    CASE o = 0 -> <<p[1], p[2]>>
      [] o = 1 -> <<p[2], p[1]>>
      [] o = 2 -> <<p[2], -p[1]>>
      [] o = 3 -> <<-p[1], p[2]>>
      [] o = 4 -> <<-p[1], -p[2]>>
      [] o = 5 -> <<-p[2], -p[1]>>
      [] o = 6 -> <<-p[2], p[1]>>
      [] OTHER -> <<p[1], -p[2]>>

OctantFrom(o, p) ==
    CASE o = 0 -> <<p[1], p[2]>>
      [] o = 1 -> <<p[2], p[1]>>
      [] o = 2 -> <<-p[2], p[1]>>
      [] o = 3 -> <<-p[1], p[2]>>
      [] o = 4 -> <<-p[1], -p[2]>>
      [] o = 5 -> <<-p[2], -p[1]>>
      [] o = 6 -> <<p[2], -p[1]>>
      [] OTHER -> <<p[1], -p[2]>>

RECURSIVE BresenhamNext(_, _, _, _, _, _)
BresenhamNext(o, p, endX, dx, dy, err) ==
    IF p[1] > endX THEN <<>>
    ELSE LET up == err >= 0
             q  == <<p[1] + 1, IF up THEN p[2] + 1 ELSE p[2]>>
             e  == (IF up THEN err - dx ELSE err) + dy
         IN  <<OctantFrom(o, p)>> \o BresenhamNext(o, q, endX, dx, dy, e)

Bresenham(start, stop) ==
    LET o  == Octant(start, stop)
        s  == OctantTo(o, start)
        e  == OctantTo(o, stop)
        dx == e[1] - s[1]
        dy == e[2] - s[2]
    IN  BresenhamNext(o, s, e[1], dx, dy, dy - dx)

\* rounding to the nearest pixel in place of the cast
PixelOf_Rounded(p) ==
    <<AsInt(RAdd(p.x, Rat(1, 2))), AsInt(RAdd(p.y, Rat(1, 2)))>>

\* (p.x as i32, p.y as i32)
PixelOf(p) == <<AsInt(p.x), AsInt(p.y)>>

\* (x as u32, y as u32) for every point of the line
LinePixels(pts) == [j \in 1..Len(pts) |-> <<AsU32(pts[j][1]), AsU32(pts[j][2])>>]

\* the pixels one edge's stroke writes, in order
StrokePixels(p0, p1) == LinePixels(Bresenham(PixelOf(p0), PixelOf(p1)))

(***************************************************************************)
(* draw_polygon as a process: Begin (edge list, top, bottom), one FillStep *)
(* per iteration of the scan loop, one OutlineStep per edge.               *)
(***************************************************************************)
Begin(polygon, color) ==
    /\ draw.pc = "idle"
    /\ LET lines == Lines(polygon)
           top == TopOf(lines, 1, F64Max)
       IN  draw' = [pc |-> "fill", polygon |-> polygon, color |-> color,
                    lines |-> lines, y |-> top,
                    bottom |-> BottomOf(lines, 1, R(0)),
                    i |-> 1, before |-> img, fillLog |-> {}, strokes |-> <<>>]
    /\ UNCHANGED <<img, op, lastw, nops, text, proj>>

Filled(r) ==
    /\ img' = r.img
    /\ draw' = [draw EXCEPT !.pc = IF r.ok THEN "fill" ELSE "panic",
                            !.fillLog = r.log,
                            !.y = RAdd(draw.y, Rat(1, 2))]

FillStep ==
    /\ draw.pc = "fill"
    /\ RLt(draw.y, draw.bottom)
    /\ Filled(WriteAll(img, ScanPixels(draw.lines, draw.y), draw.color,
                       draw.fillLog))
    /\ UNCHANGED <<op, lastw, nops, text, proj>>

FillDone ==
    /\ draw.pc = "fill"
    /\ ~RLt(draw.y, draw.bottom)
    /\ draw' = [draw EXCEPT !.pc = "outline"]
    /\ UNCHANGED <<img, op, lastw, nops, text, proj>>

Stroked(r) ==
    /\ img' = r.img
    /\ draw' = [draw EXCEPT !.pc = IF r.ok THEN "outline" ELSE "panic",
                            !.strokes = Append(@, r.log),
                            !.i = @ + 1]

OutlineStep ==
    /\ draw.pc = "outline"
    /\ draw.i <= Len(draw.lines)
    /\ Stroked(WriteAll(img, StrokePixels(draw.lines[draw.i][1],
                                          draw.lines[draw.i][2]), Black, {}))
    /\ UNCHANGED <<op, lastw, nops, text, proj>>

OutlineDone ==
    /\ draw.pc = "outline"
    /\ draw.i > Len(draw.lines)
    /\ draw' = [draw EXCEPT !.pc = "done"]
    /\ UNCHANGED <<img, op, lastw, nops, text, proj>>

DrawSteps == FillStep \/ FillDone \/ OutlineStep \/ OutlineDone

(***************************************************************************)
(* SpecRect: the rectangle [(0,0),(10,0),(10,10),(0,10)] drawn in          *)
(* [255,0,0,255] into a zeroed buffer of at least 11x11 pixels.            *)
(***************************************************************************)
RectPolygon ==
    <<Pt(R(0), R(0)), Pt(R(10), R(0)), Pt(R(10), R(10)), Pt(R(0), R(10))>>

RectDims == 11..(11 + RectSlack)

InitRect ==
    /\ \E w \in RectDims, h \in RectDims : img = New(w, h)
    /\ op = NoOp
    /\ lastw = NoWrites
    /\ nops = 0
    /\ draw = NoDraw
    /\ text = NoText
    /\ proj = NoProj

BeginRect == Begin(RectPolygon, ColorB)

NextRect == BeginRect \/ FillStep \/ FillDone \/ OutlineStep \/ OutlineDone

SpecRect == InitRect /\ [][NextRect]_vars

\* C3: drawing the rectangle completes without failure, leaves every
\* interior pixel (1..9, 1..9) at [255,0,0,255] and every pixel of the four
\* edges at [0,0,0,255].
C3_RectFilledAndOutlined ==
    /\ draw.pc # "panic"
    /\ draw.pc = "done" =>
          /\ \A x \in 1..9, y \in 1..9 : Pixel(img, x, y) = ColorB
          /\ \A x \in 0..10, y \in 0..10 :
                (x \in {0, 10} \/ y \in {0, 10}) => Pixel(img, x, y) = Black

C3_Witness ==
    /\ draw.pc = "done"
    /\ img.width = 12
    /\ Pixel(img, 5, 5) = ColorB
    /\ Pixel(img, 10, 10) = Black

(***************************************************************************)
(* SpecPoly: any polygon of at most MaxVerts vertices on the grid of     *)
(* half-pixel x and whole-pixel y inside an ImgW x ImgH buffer, drawn in ColorB.                     *)
(***************************************************************************)
GridX == {Rat(i, 2) : i \in 0..(2 * (ImgW - 1))}
GridY == {R(i) : i \in 0..(ImgH - 1)}
GridPts == {Pt(x, y) : x \in GridX, y \in GridY}
Polygons == UNION {[1..n -> GridPts] : n \in 0..MaxVerts}

InitPoly ==
    /\ img = New(ImgW, ImgH)
    /\ op = NoOp
    /\ lastw = NoWrites
    /\ nops = 0
    /\ draw = NoDraw
    /\ text = NoText
    /\ proj = NoProj

BeginPoly ==
    /\ draw.pc = "idle"
    /\ \E polygon \in Polygons : Begin(polygon, ColorB)

NextPoly == BeginPoly \/ FillStep \/ FillDone \/ OutlineStep \/ OutlineDone

SpecPoly == InitPoly /\ [][NextPoly]_vars

Max(a, b) == IF a < b THEN b ELSE a

\* the whole pixel holding a non-negative coordinate v: t <= v < t + 1
FloorOf(v) ==
    CHOOSE t \in 0..v[1] : t * v[2] <= v[1] /\ v[1] < (t + 1) * v[2]

\* the whole pixel nearest to a non-negative coordinate v (halves go up)
RoundOf(v) ==
    CHOOSE t \in 0..(v[1] + 1) :
        /\ 2 * t * v[2] <= 2 * v[1] + v[2]
        /\ 2 * v[1] + v[2] < 2 * (t + 1) * v[2]

LeastOf(S) == CHOOSE m \in S : \A v \in S : RLe(m, v)
MostOf(S) == CHOOSE m \in S : \A v \in S : RLe(v, m)
VertexXs == {draw.polygon[i].x : i \in 1..Len(draw.polygon)}
VertexYs == {draw.polygon[i].y : i \in 1..Len(draw.polygon)}

Cross(a, b, c) ==
    RSub(RMul(RSub(b.x, a.x), RSub(c.y, a.y)),
         RMul(RSub(b.y, a.y), RSub(c.x, a.x)))

\* zero, one or two distinct vertices, or all vertices on one line
Degenerate(polygon) ==
    \A i, j, k \in 1..Len(polygon) :
        Cross(polygon[i], polygon[j], polygon[k]) = R(0)

Changed(x, y) == Pixel(img, x, y) # Pixel(draw.before, x, y)

\* C4: on a degenerate polygon draw_polygon does not fail, its fill pass
\* writes no pixel, and only black outline pixels change the buffer.
C4_DegenerateNoFill ==
    (draw.pc # "idle" /\ Degenerate(draw.polygon)) =>
        /\ draw.pc # "panic"
        /\ draw.fillLog = {}
        /\ \A x \in 0..(ImgW - 1), y \in 0..(ImgH - 1) :
              Changed(x, y) => Pixel(img, x, y) = Black

\* S is a line of pixels from s to e: both ends, one pixel per step along
\* the longer axis, inside the ends' bounding box, each less than one pixel
\* off the segment along the shorter axis.
IsLine(S, s, e) ==
    LET dx == e[1] - s[1]
        dy == e[2] - s[2]
        n  == Max(Abs(dx), Abs(dy))
    IN  /\ s \in S
        /\ e \in S
        /\ Cardinality(S) = n + 1
        /\ \A p \in S :
              /\ Abs(p[1] - s[1]) <= Abs(dx) /\ Abs(e[1] - p[1]) <= Abs(dx)
              /\ Abs(p[2] - s[2]) <= Abs(dy) /\ Abs(e[2] - p[2]) <= Abs(dy)
              /\ n > 0 => Abs(dx * (p[2] - s[2]) - dy * (p[1] - s[1])) < n

StrokedBlack(S) == \A p \in S : Pixel(img, p[1], p[2]) = Black

\* C9 as stated: each edge is stroked in black along the line between its
\* end points rounded to the nearest pixel.
C9_StrokeRounded ==
    draw.pc = "done" =>
        \A i \in 1..Len(draw.strokes) :
            /\ IsLine(draw.strokes[i],
                      <<RoundOf(draw.lines[i][1].x), RoundOf(draw.lines[i][1].y)>>,
                      <<RoundOf(draw.lines[i][2].x), RoundOf(draw.lines[i][2].y)>>)
            /\ StrokedBlack(draw.strokes[i])

\* C9 amended: each edge is stroked in black along the line between its
\* end points truncated to whole pixels.
C9_StrokeTruncated ==
    draw.pc = "done" =>
        /\ Len(draw.strokes) = Len(draw.lines)
        /\ \A i \in 1..Len(draw.strokes) :
            /\ IsLine(draw.strokes[i],
                      <<FloorOf(draw.lines[i][1].x), FloorOf(draw.lines[i][1].y)>>,
                      <<FloorOf(draw.lines[i][2].x), FloorOf(draw.lines[i][2].y)>>)
            /\ StrokedBlack(draw.strokes[i])

C9_Witness ==
    /\ draw.pc = "done"
    /\ Len(draw.strokes) = 2
    /\ draw.lines[1][1] = Pt(Rat(1, 2), R(0))
    /\ draw.lines[1][2] = Pt(R(1), R(1))
    /\ draw.strokes[1] = {<<0, 0>>, <<1, 1>>}
    /\ Pixel(img, 0, 0) = Black

Kept ==
    /\ img.width = draw.before.width
    /\ img.height = draw.before.height
    /\ Len(img.data) = Len(draw.before.data)
    /\ \A x \in 0..(ImgW - 1), y \in 0..(ImgH - 1) :
          Pixel(img, x, y) \in {Pixel(draw.before, x, y), draw.color, Black}

\* every changed pixel (x, y) has x0 <= x <= x1 and y0 <= y <= y1
ChangedWithin(x0, x1, y0, y1) ==
    \A x \in 0..(ImgW - 1), y \in 0..(ImgH - 1) :
        Changed(x, y) =>
            /\ RLe(x0, R(x)) /\ RLe(R(x), x1)
            /\ RLe(y0, R(y)) /\ RLe(R(y), y1)

NoBox == [has |-> FALSE]
Box(minx, miny, maxx, maxy, cov) ==
    [has |-> TRUE, min |-> <<minx, miny>>, max |-> <<maxx, maxy>>, cov |-> cov]

\* the fold over the glyphs that have a bounding box; acc = (y_min, y_max, width)
RECURSIVE BoundsFold(_, _, _)
BoundsFold(glyphs, i, acc) ==
    IF i > Len(glyphs) THEN acc
    ELSE IF ~glyphs[i].has THEN BoundsFold(glyphs, i + 1, acc)
    ELSE BoundsFold(glyphs, i + 1,
            << IF glyphs[i].min[2] < acc[1] THEN glyphs[i].min[2] ELSE acc[1],
               IF glyphs[i].max[2] > acc[2] THEN glyphs[i].max[2] ELSE acc[2],
               IF glyphs[i].max[1] > acc[3] THEN glyphs[i].max[1] ELSE acc[3] >>)

TextBounds(glyphs) == BoundsFold(glyphs, 1, <<0, 0, 0>>)

\* glyph.draw(): the callback runs for every (x, y) of the box, and the
\* closure writes at (x + bbox.min.x, y + bbox.min.y - y_min)
GlyphPixels(g, ymin) ==
    [j \in 1..((g.max[1] - g.min[1]) * (g.max[2] - g.min[2])) |->
        << AsU32(((j - 1) % (g.max[1] - g.min[1])) + g.min[1]),
           AsU32(((j - 1) \div (g.max[1] - g.min[1])) + g.min[2] - ymin) >>]

\* [color[2], color[1], color[0], (255.0*w) as u8]
GlyphColor(color, cov) ==
    <<color[3], color[2], color[1], AsInt(RMul(R(255), cov))>>

RECURSIVE DrawGlyphs(_, _, _, _, _)
DrawGlyphs(r, glyphs, i, ymin, color) ==
    IF i > Len(glyphs) \/ ~r.ok THEN r
    ELSE IF ~glyphs[i].has THEN DrawGlyphs(r, glyphs, i + 1, ymin, color)
    ELSE DrawGlyphs(WriteAll(r.img, GlyphPixels(glyphs[i], ymin),
                             GlyphColor(color, glyphs[i].cov), r.log),
                    glyphs, i + 1, ymin, color)

\* the box taken as inclusive of its last row and column
Allocated_Inclusive(b) == New(AsU32(b[3]) + 1, AsU32(b[2] - b[1]) + 1)

\* width and height handed to new() in the wrong order
Allocated_Swapped(b) == New(AsU32(b[2] - b[1]), AsU32(b[3]))

Allocated(b) == New(AsU32(b[3]), AsU32(b[2] - b[1]))

create_text_image(glyphs, color) ==
    DrawGlyphs([ok |-> TRUE, img |-> Allocated(TextBounds(glyphs)), log |-> {}],
               glyphs, 1, TextBounds(glyphs)[1], color)

TextColor == <<1, 2, 3>>
Coverages == {R(1), Rat(1, 2)}

\* the characters of a text: one without an outline (a space), or one whose
\* outline spans the rows lo..hi-1 around the baseline
Chars ==
    {[box |-> FALSE, lo |-> 0, hi |-> 0, cov |-> R(1)]} \cup
    {c \in [box : {TRUE}, lo : (-MaxExt)..(MaxExt - 1),
            hi : (1 - MaxExt)..MaxExt, cov : Coverages] : c.lo < c.hi}

\* font.layout(): the i-th glyph is placed one pixel wide at column i-1
Positioned(c, i) ==
    IF c.box THEN Box(i - 1, c.lo, i, c.hi, c.cov) ELSE NoBox

Layout(chars) == [i \in 1..Len(chars) |-> Positioned(chars[i], i)]

InitText ==
    /\ img = New(0, 0)
    /\ op = NoOp
    /\ lastw = NoWrites
    /\ nops = 0
    /\ draw = NoDraw
    /\ text = NoText
    /\ proj = NoProj

Rendered(glyphs, r) ==
    /\ img' = r.img
    /\ text' = [pc |-> "done", glyphs |-> glyphs, ok |-> r.ok, log |-> r.log]

CreateTextImage ==
    /\ text.pc = "idle"
    /\ \E n \in 0..MaxGlyphs : \E chars \in [1..n -> Chars] :
          Rendered(Layout(chars), create_text_image(Layout(chars), TextColor))
    /\ UNCHANGED <<op, lastw, nops, draw, proj>>

NextText == CreateTextImage

SpecText == InitText /\ [][NextText]_vars

HasBox(glyphs) == \E i \in 1..Len(glyphs) : glyphs[i].has
BoxMinYs(glyphs) == {glyphs[i].min[2] : i \in {k \in 1..Len(glyphs) : glyphs[k].has}}
BoxMaxYs(glyphs) == {glyphs[i].max[2] : i \in {k \in 1..Len(glyphs) : glyphs[k].has}}
BoxMaxXs(glyphs) == {glyphs[i].max[1] : i \in {k \in 1..Len(glyphs) : glyphs[k].has}}
Least(S) == CHOOSE m \in S : \A v \in S : m <= v
Most(S) == CHOOSE m \in S : \A v \in S : v <= m

\* C5: with no glyph bearing a bounding box, create_text_image succeeds with
\* a buffer of width 0, height 0 and no bytes, and writes no pixel.
C5_NoBoxEmptyImage ==
    (text.pc = "done" /\ ~HasBox(text.glyphs)) =>
        /\ text.ok
        /\ img.width = 0
        /\ img.height = 0
        /\ img.data = <<>>
        /\ text.log = {}

C5_Witness ==
    /\ text.pc = "done"
    /\ text.glyphs = <<NoBox, NoBox>>
    /\ img.data = <<>>

\* C8 as stated: with at least one bounding box, width is the greatest
\* bbox.max.x and height is the greatest bbox.max.y minus the least
\* bbox.min.y, over the glyphs that have a bounding box and nothing else.
C8_BoundsOfBoxesOnly ==
    (text.pc = "done" /\ HasBox(text.glyphs)) =>
        /\ img.width = Most(BoxMaxXs(text.glyphs))
        /\ img.height = Most(BoxMaxYs(text.glyphs)) - Least(BoxMinYs(text.glyphs))

\* C8 amended: the same with the layout origin 0 taking part in each
\* minimum and maximum.
C8_BoundsWithOrigin ==
    (text.pc = "done" /\ HasBox(text.glyphs)) =>
        /\ img.width = Most(BoxMaxXs(text.glyphs) \cup {0})
        /\ img.height = Most(BoxMaxYs(text.glyphs) \cup {0})
                            - Least(BoxMinYs(text.glyphs) \cup {0})
        /\ Len(img.data) = 4 * img.width * img.height

C8_Witness ==
    /\ text.pc = "done"
    /\ text.glyphs = <<Box(0, 1, 1, 2, R(1))>>
    /\ img.width = 1
    /\ img.height = 2

(***************************************************************************)
(* Projection (src/src/lib.rs)                                             *)
(***************************************************************************)
\* Point::coordinate
coordinate(p, width, height) ==
    [lon |-> RMul(R(180), RSub(RDiv(RMul(R(2), p.x), RSub(width, R(1))), R(1))),
     lat |-> RMul(R(90), RSub(R(1), RDiv(RMul(R(2), p.y), RSub(height, R(1)))))]

\* width and height in place of width-1 and height-1
screen_FullSide(c, width, height) ==
    Pt(RDiv(RMul(width, RAdd(RDiv(c.lon, R(180)), R(1))), R(2)),
       RDiv(RMul(height, RSub(R(1), RDiv(c.lat, R(90)))), R(2)))

\* Coordinate::screen
screen(c, width, height) ==
    Pt(RDiv(RMul(RSub(width, R(1)), RAdd(RDiv(c.lon, R(180)), R(1))), R(2)),
       RDiv(RMul(RSub(height, R(1)), RSub(R(1), RDiv(c.lat, R(90)))), R(2)))

(***************************************************************************)
(* SpecProj: a projection of width and height in (1, MaxSide], in steps of *)
(* one half, and a Point on the half-pixel grid inside it, converted to a  *)
(* Coordinate and back.                                                    *)
(***************************************************************************)
Sides == {Rat(k, 2) : k \in 3..(2 * MaxSide)}
Within(side) ==
    {v \in {Rat(i, 2) : i \in 0..(2 * MaxSide)} : RLe(v, RSub(side, R(1)))}

InitProj ==
    /\ img = New(0, 0)
    /\ op = NoOp
    /\ lastw = NoWrites
    /\ nops = 0
    /\ draw = NoDraw
    /\ text = NoText
    /\ proj = NoProj

PickPoint ==
    /\ proj.pc = "idle"
    /\ \E width \in Sides, height \in Sides :
          \E x \in Within(width), y \in Within(height) :
              proj' = [pc |-> "point", width |-> width, height |-> height,
                       p |-> Pt(x, y)]
    /\ UNCHANGED <<img, op, lastw, nops, draw, text>>

ToCoordinate ==
    /\ proj.pc = "point"
    /\ proj' = [pc |-> "coordinate", width |-> proj.width,
                height |-> proj.height, p |-> proj.p,
                c |-> coordinate(proj.p, proj.width, proj.height)]
    /\ UNCHANGED <<img, op, lastw, nops, draw, text>>

ToScreen ==
    /\ proj.pc = "coordinate"
    /\ proj' = [pc |-> "screen", width |-> proj.width,
                height |-> proj.height, p |-> proj.p, c |-> proj.c,
                q |-> screen(proj.c, proj.width, proj.height)]
    /\ UNCHANGED <<img, op, lastw, nops, draw, text>>

NextProj == PickPoint \/ ToCoordinate \/ ToScreen

SpecProj == InitProj /\ [][NextProj]_vars

\* C7: for width > 1, height > 1 and a Point with 0 <= x <= width-1 and
\* 0 <= y <= height-1, coordinate then screen gives the Point back, and the
\* Coordinate between has lon in [-180, 180] and lat in [-90, 90].
C7_RoundTrip ==
    /\ proj.pc \in {"coordinate", "screen"} =>
          /\ RLe(R(-180), proj.c.lon) /\ RLe(proj.c.lon, R(180))
          /\ RLe(R(-90), proj.c.lat) /\ RLe(proj.c.lat, R(90))
    /\ proj.pc = "screen" => proj.q = proj.p

C7_Witness ==
    /\ proj.pc = "screen"
    /\ proj.width = Rat(5, 2)
    /\ proj.height = R(3)
    /\ proj.p = Pt(Rat(1, 2), R(2))
    /\ proj.c = [lon |-> R(-60), lat |-> R(-90)]
    /\ proj.q = proj.p

====
